---- MODULE Spec2Model ----
(***************************************************************************)
(* State-machine model of src/train.py: the training loop of main_worker   *)
(* and train(), the diagnostics compute_grad_epoch, compute_sto_grad_norm  *)
(* and save_stats, the four CSV logs, and the AverageMeter class.          *)
(*                                                                         *)
(* Tensors are modelled symbolically.  A gradient buffer is the sequence   *)
(* of backward passes accumulated into it since it was last zeroed; each   *)
(* entry records which batch was back-propagated and by what the loss was  *)
(* divided.  The empty sequence is the zeroed buffer.  Parameters are the  *)
(* checkpoint they were loaded from and the number of optimizer steps      *)
(* applied since.                                                          *)
(*                                                                         *)
(* Worker processes are modelled as independent of one another after       *)
(* start-up: this is the path of main_worker lines 262-263, on which the   *)
(* model is not wrapped in DistributedDataParallel.                        *)
(* The learning-rate schedule is "constant" (neither branch of lines       *)
(* 396-399 is taken) and args.evaluate is off.                             *)
(***************************************************************************)
EXTENDS Integers, Sequences, FiniteSets, TLC

\* ---------------------------------------------------------------- bounds
MaxEpochs == 2
MaxTrainLen == 3
MaxStatsLen == 4
MaxStatFreq == 2
MaxNoiseSize == 2
MaxSharpBatches == 1
MaxFreq == 2
BatchSize == 2
MaxVal == 2
MaxWeight == 2
MaxUpdates == 3

\* ------------------------------------------------------- pure arithmetic
RECURSIVE GCD(_, _)
GCD(a, b) == IF b = 0 THEN a ELSE GCD(b, a % b)

\* the value of the true division a / b (b > 0, a >= 0) as a fraction in
\* lowest terms
Ratio(a, b) == LET g == GCD(a, b) IN <<a \div g, b \div g>>

RECURSIVE SumVW(_)
SumVW(h) == IF h = <<>> THEN 0 ELSE h[1][1] * h[1][2] + SumVW(Tail(h))

RECURSIVE SumW(_)
SumW(h) == IF h = <<>> THEN 0 ELSE h[1][2] + SumW(Tail(h))

\* ---------------------------------------------------------- AverageMeter
\* reset(): val = avg = sum = count = 0
AverageMeter_reset == [val |-> 0, avg |-> <<0, 1>>, sum |-> 0, count |-> 0]

\* update(val, n): the three assignments of lines 700-702, then the division
\* of line 703, which raises ZeroDivisionError when count is 0 and leaves avg
\* as it was.
AverageMeter_update_unweighted(m, v, n) ==
    LET s == m.sum + v
        c == m.count + n
    IN  [val |-> v, sum |-> s, count |-> c,
         avg |-> IF c = 0 THEN m.avg ELSE Ratio(s, c)]

AverageMeter_update(m, v, n) ==
    LET s == m.sum + v * n
        c == m.count + n
    IN  [val |-> v, sum |-> s, count |-> c,
         avg |-> IF c = 0 THEN m.avg ELSE Ratio(s, c)]

\* the exception update(val, n) ends with, "none" on a normal return
AverageMeter_update_raises(m, n) ==
    IF m.count + n = 0 THEN "ZeroDivisionError" ELSE "none"

\* ------------------------------------------------------ gradient buffers
\* model.zero_grad() / optimizer.zero_grad()
zero_grad(g) == <<>>

\* one loss.backward(): the gradient of `loss / div` on one batch is added
\* to the buffers
backward(g, kind, e, b, div) ==
    Append(g, [kind |-> kind, epoch |-> e, batch |-> b, div |-> div])

\* clone_grad(model, d): a detached copy of every gradient present
clone_grad(g) == g

\* None, and the empty dict: both are falsy at line 457
None == <<>>

\* ---------------------------------------------------- compute_grad_epoch
\* The loop of lines 419-439 from iteration k on.  `pos` is the number of
\* batches the iterator has yielded so far, S is the number it yields in
\* all; next() on an exhausted iterator raises StopIteration.
RECURSIVE cge_loop_undivided(_, _, _, _, _, _)
cge_loop_undivided(k, pos, g, N, S, e) ==
    IF k >= N THEN [raised |-> "none", grad |-> g, pos |-> pos]
    ELSE IF pos >= S THEN [raised |-> "StopIteration", grad |-> g, pos |-> pos]
    ELSE cge_loop_undivided(k + 1, pos + 1,
                            backward(g, "stat", e, pos + 1, 1), N, S, e)

RECURSIVE cge_loop(_, _, _, _, _, _)
cge_loop(k, pos, g, N, S, e) ==
    IF k >= N THEN [raised |-> "none", grad |-> g, pos |-> pos]
    ELSE IF pos >= S THEN [raised |-> "StopIteration", grad |-> g, pos |-> pos]
    ELSE cge_loop(k + 1, pos + 1, backward(g, "stat", e, pos + 1, N), N, S, e)

compute_grad_epoch_keeps_grad(pos, g0, N, S, e) ==
    LET l == cge_loop(0, pos, zero_grad(g0), N, S, e)
    IN  IF l.raised # "none"
        THEN [raised |-> l.raised, grad |-> l.grad, ret |-> None,
              pos |-> l.pos, drawn |-> l.pos - pos]
        ELSE [raised |-> "none", grad |-> l.grad,
              ret |-> clone_grad(l.grad), pos |-> l.pos, drawn |-> l.pos - pos]

compute_grad_epoch(pos, g0, N, S, e) ==
    LET l == cge_loop(0, pos, zero_grad(g0), N, S, e)
    IN  IF l.raised # "none"
        THEN [raised |-> l.raised, grad |-> l.grad, ret |-> None,
              pos |-> l.pos, drawn |-> l.pos - pos]
        ELSE [raised |-> "none", grad |-> zero_grad(l.grad),
              ret |-> clone_grad(l.grad), pos |-> l.pos, drawn |-> l.pos - pos]

\* ------------------------------------------------- compute_sto_grad_norm
\* compute_noise(a, b): the pair it compares (the squared distance is zero
\* iff the two snapshots are equal)
compute_noise(a, b) == [of |-> a, against |-> b]

\* The loop of lines 466-493 from iteration k on; `acc` is noise_sq.
RECURSIVE sto_loop(_, _, _, _, _, _, _, _)
sto_loop(k, pos, g, acc, tg, N, S, e) ==
    IF k >= N THEN [raised |-> "none", grad |-> g, pos |-> pos, noise_sq |-> acc]
    ELSE IF pos >= S
    THEN [raised |-> "StopIteration", grad |-> g, pos |-> pos, noise_sq |-> acc]
    ELSE LET g1 == backward(zero_grad(g), "stat", e, pos + 1, 1)
         IN  sto_loop(k + 1, pos + 1, g1,
                      Append(acc, compute_noise(clone_grad(g1), tg)), tg, N, S, e)

compute_sto_grad_norm(pos, g0, N, S, e, prev_true_grad_arg) ==
    LET t == compute_grad_epoch(pos, g0, N, S, e)
        prev == IF prev_true_grad_arg = None THEN t.ret ELSE prev_true_grad_arg
        l == sto_loop(0, t.pos, t.grad, <<>>, t.ret, N, S, e)
    IN  IF t.raised # "none"
        THEN [raised |-> t.raised, grad |-> t.grad, pos |-> t.pos,
              noise_sq |-> <<>>, true_grads |-> None, grad_change_sq |-> compute_noise(None, None)]
        ELSE IF l.raised # "none"
        THEN [raised |-> l.raised, grad |-> l.grad, pos |-> l.pos,
              noise_sq |-> l.noise_sq, true_grads |-> t.ret,
              grad_change_sq |-> compute_noise(None, None)]
        ELSE [raised |-> "none", grad |-> zero_grad(l.grad), pos |-> l.pos,
              noise_sq |-> l.noise_sq, true_grads |-> t.ret,
              grad_change_sq |-> compute_noise(t.ret, prev)]

\* ------------------------------------------- dir_hessian / eigen_hessian
\* One curvature pass: it reads the parameters p, averages over at most nb
\* batches of the iterator and leaves the gradient buffers zeroed.
hessian_pass(p, pos, nb, S) ==
    [params |-> p, drawn |-> IF S - pos >= nb THEN nb ELSE S - pos]

dir_hessian(p, pos, nb, S) == hessian_pass(p, pos, nb, S)

eigen_hessian(p, pos, nb, S) == hessian_pass(p, pos, nb, S)

\* ------------------------------------------------------------------ state
VARIABLES
    args,            \* the parsed command line (read-only after start)
    env,             \* nprocs, len(train_loader), batches per fresh
                     \* iter(stats_loader), whether ngpus_per_node resolves
    pc,              \* each worker's position in main_worker / train
    epoch,           \* main_worker's loop variable
    i,               \* train's loop variable
    grad,            \* the live model's gradient buffers
    params,          \* the live model's parameters
    optim,           \* the optimizer's state (momentum buffers)
    losses,          \* train's AverageMeter 'Loss'
    prev_true_grad,  \* train's locals of line 580
    update_size,
    m_size,
    stats,           \* save_stats' locals
    raised,          \* the exception that ended the worker, or "none"
    log_train_file,  \* the four CSV files of the save directory
    log_valid_file,
    log_sharp_file,
    log_noise_file,
    stepped,         \* history: what each optimizer.step() consumed
    cge,             \* history: the last compute_grad_epoch call of train
    consumed,        \* the batches enumerate(train_loader) has yielded in
                     \* the current epoch, in order
    meter,           \* a free-standing AverageMeter
    hist,            \* history: its updates since the last reset
    merr             \* the exception its last operation raised

meterVars == <<meter, hist, merr>>
logVars == <<log_train_file, log_valid_file, log_sharp_file, log_noise_file>>
cfgVars == <<args, env>>
workerVars == <<pc, epoch, i, grad, params, optim, losses, prev_true_grad,
                update_size, m_size, stats, raised, stepped, cge, consumed>>
vars == <<cfgVars, workerVars, logVars, meterVars>>

Procs == 0 .. env.nprocs - 1

\* pretrained = bool(args.pretrain_path), line 384
pretrained == args.pretrain_path

\* loss.item() of the forward pass on training batch b
LossOf(b) == b + 1

\* the condition of lines 583 and 593
measuring(w) == args.save_noise /\ i[w] % args.stat_freq = 0

\* the condition of lines 623-624 and 672-673; in a multiprocessing run the
\* rank is the process index and ngpus_per_node the number of processes
is_log_writer(w) ==
    \/ ~args.multiprocessing_distributed
    \/ args.multiprocessing_distributed /\ w % env.nprocs = 0

\* evaluating that condition raises NameError when ngpus_per_node, which
\* train.py never binds at module level, is not supplied by a star import
gate_raises == args.multiprocessing_distributed /\ ~env.ngpus_bound

InitParams == [ckpt |-> 0, steps |-> 0]

NoStats == [cgrad |-> <<>>, sharpness |-> hessian_pass(InitParams, 0, 0, 0),
            dir_sharpness |-> hessian_pass(InitParams, 0, 0, 0),
            noise |-> compute_sto_grad_norm(0, <<>>, 0, 0, 0, None),
            direction |-> <<>>]

NoCall == [called |-> FALSE, epoch |-> 0, i |-> 0, steps |-> 0,
           res |-> compute_grad_epoch(0, <<>>, 0, 0, 0)]

HeaderRow == [epoch |-> -1, rank |-> -1, step |-> -1, data |-> <<>>]

\* a data row; rank and step are not in the CSV line, they record which
\* process wrote it and at which training step
Row(e, w, st, d) == [epoch |-> e, rank |-> w, step |-> st, data |-> d]

\* ------------------------------------------------------------ main_worker
\* lines 297-302: every process opens the four files with mode 'w', which
\* truncates them, and writes the header lines
main_worker_open_logs(w) ==
    /\ pc[w] = "start"
    /\ log_train_file' = <<HeaderRow>>
    /\ log_noise_file' = <<HeaderRow>>
    /\ log_valid_file' = <<HeaderRow>>
    /\ log_sharp_file' = <<HeaderRow>>
    /\ pc' = [pc EXCEPT ![w] = "epoch"]
    /\ UNCHANGED <<cfgVars, consumed, epoch, i, grad, params, optim, losses,
                   prev_true_grad, update_size, m_size, stats, raised,
                   stepped, cge, meterVars>>

\* load_model, lines 118-123
load_model(e) == [ckpt |-> e + 1, steps |-> 0]

\* lines 385-402: the head of the epoch loop up to the entry of train(),
\* whose lines 544-555 create the meters
main_worker_epoch(w) ==
    /\ pc[w] = "epoch"
    /\ IF epoch[w] < args.epochs
       THEN /\ IF args.pretrain_path /\ epoch[w] % args.epoch_interval = 0
               THEN /\ params' = [params EXCEPT ![w] = load_model(epoch[w])]
                    /\ optim' = [optim EXCEPT ![w] = load_model(epoch[w])]
               ELSE UNCHANGED <<params, optim>>
            /\ losses' = [losses EXCEPT ![w] = AverageMeter_reset]
            /\ i' = [i EXCEPT ![w] = 0]
            /\ consumed' = [consumed EXCEPT ![w] = <<>>]
            /\ pc' = [pc EXCEPT ![w] = "fetch"]
       ELSE /\ pc' = [pc EXCEPT ![w] = "done"]
            /\ UNCHANGED <<params, optim, losses, i, consumed>>
    /\ UNCHANGED <<cfgVars, epoch, grad, prev_true_grad, update_size, m_size,
                   stats, raised, stepped, cge, logVars, meterVars>>

\* ------------------------------------------------------------------ train
\* lines 557-580: the next training batch, the forward pass, the meters,
\* optimizer.zero_grad() and the reset of the three locals.  The training
\* iterator yields batch number Len(consumed) or is exhausted, which ends
\* the loop; i is the counter of enumerate.
train_fetch(w) ==
    /\ pc[w] = "fetch"
    /\ IF Len(consumed[w]) < env.trainLen
       THEN /\ consumed' = [consumed EXCEPT ![w] = Append(@, Len(@))]
            /\ losses' = [losses EXCEPT
                 ![w] = AverageMeter_update(losses[w], LossOf(Len(consumed[w])),
                                            BatchSize)]
            /\ grad' = [grad EXCEPT ![w] = zero_grad(grad[w])]
            /\ prev_true_grad' = [prev_true_grad EXCEPT ![w] = None]
            /\ update_size' = [update_size EXCEPT ![w] = None]
            /\ m_size' = [m_size EXCEPT ![w] = 0]
            /\ pc' = [pc EXCEPT ![w] = IF pretrained THEN "stats" ELSE "pre"]
       ELSE /\ pc' = [pc EXCEPT ![w] = "trainlog"]
            /\ UNCHANGED <<losses, grad, prev_true_grad, update_size, m_size,
                           consumed>>
    /\ UNCHANGED <<cfgVars, epoch, i, params, optim, stats, raised, stepped,
                   cge, logVars, meterVars>>

train_true_grad_discards_snapshot(w) ==
    /\ pc[w] = "pre"
    /\ IF measuring(w)
       THEN LET r == compute_grad_epoch(0, grad[w], args.noise_size,
                                        env.statsLen, epoch[w])
            IN  /\ grad' = [grad EXCEPT ![w] = r.grad]
                /\ cge' = [cge EXCEPT ![w] = [called |-> TRUE,
                              epoch |-> epoch[w], i |-> i[w],
                              steps |-> params[w].steps, res |-> r]]
                /\ IF r.raised = "none"
                   THEN /\ UNCHANGED prev_true_grad
                        /\ pc' = [pc EXCEPT ![w] = "backward"]
                        /\ UNCHANGED raised
                   ELSE /\ raised' = [raised EXCEPT ![w] = r.raised]
                        /\ pc' = [pc EXCEPT ![w] = "crashed"]
                        /\ UNCHANGED prev_true_grad
       ELSE /\ pc' = [pc EXCEPT ![w] = "backward"]
            /\ UNCHANGED <<grad, cge, prev_true_grad, raised>>
    /\ UNCHANGED <<cfgVars, consumed, epoch, i, params, optim, losses, update_size,
                   m_size, stats, stepped, logVars, meterVars>>

\* lines 583-586: the true gradient before the update
train_true_grad(w) ==
    /\ pc[w] = "pre"
    /\ IF measuring(w)
       THEN LET r == compute_grad_epoch(0, grad[w], args.noise_size,
                                        env.statsLen, epoch[w])
            IN  /\ grad' = [grad EXCEPT ![w] = r.grad]
                /\ cge' = [cge EXCEPT ![w] = [called |-> TRUE,
                              epoch |-> epoch[w], i |-> i[w],
                              steps |-> params[w].steps, res |-> r]]
                /\ IF r.raised = "none"
                   THEN /\ prev_true_grad' =
                              [prev_true_grad EXCEPT ![w] = r.ret]
                        /\ pc' = [pc EXCEPT ![w] = "backward"]
                        /\ UNCHANGED raised
                   ELSE /\ raised' = [raised EXCEPT ![w] = r.raised]
                        /\ pc' = [pc EXCEPT ![w] = "crashed"]
                        /\ UNCHANGED prev_true_grad
       ELSE /\ pc' = [pc EXCEPT ![w] = "backward"]
            /\ UNCHANGED <<grad, cge, prev_true_grad, raised>>
    /\ UNCHANGED <<cfgVars, consumed, epoch, i, params, optim, losses, update_size,
                   m_size, stats, stepped, logVars, meterVars>>

\* line 589: loss.backward()
train_backward(w) ==
    /\ pc[w] = "backward"
    /\ grad' = [grad EXCEPT ![w] = backward(grad[w], "train", epoch[w],
                                            consumed[w][Len(consumed[w])], 1)]
    /\ pc' = [pc EXCEPT ![w] = "step"]
    /\ UNCHANGED <<cfgVars, consumed, epoch, i, params, optim, losses, prev_true_grad,
                   update_size, m_size, stats, raised, stepped, cge, logVars,
                   meterVars>>

\* line 591: optimizer.step()
train_optimizer_step(w) ==
    /\ pc[w] = "step"
    /\ params' = [params EXCEPT ![w].steps = @ + 1]
    /\ optim' = [optim EXCEPT ![w].steps = @ + 1]
    /\ stepped' = [stepped EXCEPT ![w] =
                     Append(@, [epoch |-> epoch[w], i |-> i[w], grad |-> grad[w]])]
    /\ pc' = [pc EXCEPT ![w] = "post"]
    /\ UNCHANGED <<cfgVars, consumed, epoch, i, grad, losses, prev_true_grad,
                   update_size, m_size, stats, raised, cge, logVars, meterVars>>

\* lines 593-604: the update direction and the momentum size
train_update_size(w) ==
    /\ pc[w] = "post"
    /\ IF measuring(w)
       THEN /\ update_size' = [update_size EXCEPT ![w] = clone_grad(grad[w])]
            /\ m_size' = [m_size EXCEPT ![w] = optim[w].steps]
       ELSE UNCHANGED <<update_size, m_size>>
    /\ pc' = [pc EXCEPT ![w] = "stats"]
    /\ UNCHANGED <<cfgVars, consumed, epoch, i, grad, params, optim, losses,
                   prev_true_grad, stats, raised, stepped, cge, logVars,
                   meterVars>>

\* ------------------------------------------------------------- save_stats
save_stats_compute_stale_iterator(w) ==
    LET sharp == IF args.save_sharpness
                 THEN [dir |-> dir_hessian(params[w], 0,
                                  args.sharpness_batches, env.statsLen),
                       eig |-> eigen_hessian(params[w], 0,
                                  args.sharpness_batches, env.statsLen)]
                 ELSE [dir |-> NoStats.dir_sharpness, eig |-> NoStats.sharpness]
        cg == IF args.save_sharpness THEN zero_grad(grad[w]) ELSE grad[w]
        n == IF args.save_noise
             THEN compute_sto_grad_norm(
                      IF args.save_sharpness THEN sharp.eig.drawn ELSE 0,
                      zero_grad(cg), args.noise_size,
                      env.statsLen, epoch[w], prev_true_grad[w])
             ELSE [NoStats.noise EXCEPT !.grad = cg]
    IN  [cgrad |-> n.grad, sharpness |-> sharp.eig,
         dir_sharpness |-> sharp.dir, noise |-> n, direction |-> cg]

\* lines 499-526 on copy.deepcopy(model): the curvature passes, each on a
\* fresh iterator, then the noise pass on a fresh iterator.  The call of
\* line 508 passes the copied model, the iterator, the criterion and the
\* batch count, and no direction: `direction` is all the gradient-shaped
\* state dir_hessian receives, the copy's gradient buffers after the
\* zero_grad of line 507 (the buffers as copied when no curvature pass runs).
save_stats_compute(w) ==
    LET sharp == IF args.save_sharpness
                 THEN [dir |-> dir_hessian(params[w], 0,
                                  args.sharpness_batches, env.statsLen),
                       eig |-> eigen_hessian(params[w], 0,
                                  args.sharpness_batches, env.statsLen)]
                 ELSE [dir |-> NoStats.dir_sharpness, eig |-> NoStats.sharpness]
        cg == IF args.save_sharpness THEN zero_grad(grad[w]) ELSE grad[w]
        n == IF args.save_noise
             THEN compute_sto_grad_norm(0, zero_grad(cg), args.noise_size,
                                        env.statsLen, epoch[w], prev_true_grad[w])
             ELSE [NoStats.noise EXCEPT !.grad = cg]
    IN  [cgrad |-> n.grad, sharpness |-> sharp.eig,
         dir_sharpness |-> sharp.dir, noise |-> n, direction |-> cg]

\* lines 615-616 and the computing part of save_stats
train_save_stats(w) ==
    /\ pc[w] = "stats"
    /\ IF args.save_noise /\ (pretrained \/ i[w] % args.stat_freq = 0)
       THEN LET r == save_stats_compute(w)
            IN  /\ stats' = [stats EXCEPT ![w] = r]
                /\ IF r.noise.raised = "none"
                   THEN /\ pc' = [pc EXCEPT ![w] = "write_sharp"]
                        /\ UNCHANGED raised
                   ELSE /\ raised' = [raised EXCEPT ![w] = r.noise.raised]
                        /\ pc' = [pc EXCEPT ![w] = "crashed"]
       ELSE /\ pc' = [pc EXCEPT ![w] = "next"]
            /\ UNCHANGED <<stats, raised>>
    /\ UNCHANGED <<cfgVars, consumed, epoch, i, grad, params, optim, losses,
                   prev_true_grad, update_size, m_size, stepped, cge, logVars,
                   meterVars>>

\* lines 529-531: the sharpness row
save_stats_write_sharp(w) ==
    /\ pc[w] = "write_sharp"
    /\ IF args.save_sharpness
       THEN log_sharp_file' = Append(log_sharp_file,
                Row(epoch[w], w, i[w],
                    <<stats[w].sharpness, stats[w].dir_sharpness>>))
       ELSE UNCHANGED log_sharp_file
    /\ pc' = [pc EXCEPT ![w] = "write_noise"]
    /\ UNCHANGED <<cfgVars, consumed, epoch, i, grad, params, optim, losses,
                   prev_true_grad, update_size, m_size, stats, raised, stepped,
                   cge, log_train_file, log_valid_file, log_noise_file,
                   meterVars>>

\* lines 533-540: the noise row
save_stats_write_noise(w) ==
    /\ pc[w] = "write_noise"
    /\ IF args.save_noise
       THEN log_noise_file' = Append(log_noise_file,
                Row(epoch[w], w, i[w],
                    <<stats[w].noise.noise_sq, stats[w].noise.true_grads,
                      update_size[w], stats[w].noise.grad_change_sq,
                      m_size[w]>>))
       ELSE UNCHANGED log_noise_file
    /\ pc' = [pc EXCEPT ![w] = "next"]
    /\ UNCHANGED <<cfgVars, consumed, epoch, i, grad, params, optim, losses,
                   prev_true_grad, update_size, m_size, stats, raised, stepped,
                   cge, log_train_file, log_valid_file, log_sharp_file,
                   meterVars>>

train_next_no_break(w) ==
    /\ pc[w] = "next"
    /\ i' = [i EXCEPT ![w] = @ + 1]
    /\ pc' = [pc EXCEPT ![w] = "fetch"]
    /\ UNCHANGED <<cfgVars, consumed, epoch, grad, params, optim, losses, prev_true_grad,
                   update_size, m_size, stats, raised, stepped, cge, logVars,
                   meterVars>>

\* lines 618-619 and the loop's increment
train_next(w) ==
    /\ pc[w] = "next"
    /\ IF pretrained
       THEN /\ pc' = [pc EXCEPT ![w] = "trainlog"]
            /\ UNCHANGED i
       ELSE /\ i' = [i EXCEPT ![w] = @ + 1]
            /\ pc' = [pc EXCEPT ![w] = "fetch"]
    /\ UNCHANGED <<cfgVars, consumed, epoch, grad, params, optim, losses, prev_true_grad,
                   update_size, m_size, stats, raised, stepped, cge, logVars,
                   meterVars>>

\* lines 623-626: the epoch's row of the training log
train_log(w) ==
    /\ pc[w] = "trainlog"
    /\ IF gate_raises
       THEN /\ raised' = [raised EXCEPT ![w] = "NameError"]
            /\ pc' = [pc EXCEPT ![w] = "crashed"]
            /\ UNCHANGED log_train_file
       ELSE /\ IF is_log_writer(w)
               THEN log_train_file' = Append(log_train_file,
                        Row(epoch[w], w, i[w], <<losses[w].avg>>))
               ELSE UNCHANGED log_train_file
            /\ pc' = [pc EXCEPT ![w] = "validate"]
            /\ UNCHANGED raised
    /\ UNCHANGED <<cfgVars, consumed, epoch, i, grad, params, optim, losses,
                   prev_true_grad, update_size, m_size, stats, stepped, cge,
                   log_valid_file, log_sharp_file, log_noise_file, meterVars>>

main_worker_validate_every_epoch(w) ==
    /\ pc[w] = "validate"
    /\ IF gate_raises
       THEN /\ raised' = [raised EXCEPT ![w] = "NameError"]
            /\ pc' = [pc EXCEPT ![w] = "crashed"]
            /\ UNCHANGED <<log_valid_file, epoch>>
       ELSE /\ IF is_log_writer(w)
               THEN log_valid_file' = Append(log_valid_file,
                        Row(epoch[w], w, 0, <<>>))
               ELSE UNCHANGED log_valid_file
            /\ epoch' = [epoch EXCEPT ![w] = @ + 1]
            /\ pc' = [pc EXCEPT ![w] = "epoch"]
            /\ UNCHANGED raised
    /\ UNCHANGED <<cfgVars, consumed, i, grad, params, optim, losses, prev_true_grad,
                   update_size, m_size, stats, stepped, cge, log_train_file,
                   log_sharp_file, log_noise_file, meterVars>>

\* lines 406-407 and validate, lines 630-677, then the next epoch
main_worker_validate(w) ==
    /\ pc[w] = "validate"
    /\ IF epoch[w] % args.eval_freq = 0 /\ gate_raises
       THEN /\ raised' = [raised EXCEPT ![w] = "NameError"]
            /\ pc' = [pc EXCEPT ![w] = "crashed"]
            /\ UNCHANGED <<log_valid_file, epoch>>
       ELSE /\ IF epoch[w] % args.eval_freq = 0 /\ is_log_writer(w)
               THEN log_valid_file' = Append(log_valid_file,
                        Row(epoch[w], w, 0, <<>>))
               ELSE UNCHANGED log_valid_file
            /\ epoch' = [epoch EXCEPT ![w] = @ + 1]
            /\ pc' = [pc EXCEPT ![w] = "epoch"]
            /\ UNCHANGED raised
    /\ UNCHANGED <<cfgVars, consumed, i, grad, params, optim, losses, prev_true_grad,
                   update_size, m_size, stats, stepped, cge, log_train_file,
                   log_sharp_file, log_noise_file, meterVars>>

\* ------------------------------------------------- AverageMeter, on its own
meter_reset ==
    /\ meter' = AverageMeter_reset
    /\ hist' = <<>>
    /\ merr' = "none"
    /\ UNCHANGED <<cfgVars, workerVars, logVars>>

meter_update(v, n) ==
    /\ Len(hist) < MaxUpdates
    /\ meter' = AverageMeter_update(meter, v, n)
    /\ merr' = AverageMeter_update_raises(meter, n)
    /\ hist' = Append(hist, <<v, n>>)
    /\ UNCHANGED <<cfgVars, workerVars, logVars>>

\* ------------------------------------------------------------------- Init
ArgsSet ==
    [save_noise : BOOLEAN, save_sharpness : BOOLEAN,
     stat_freq : 1 .. MaxStatFreq, noise_size : 1 .. MaxNoiseSize,
     sharpness_batches : 1 .. MaxSharpBatches,
     epochs : 1 .. MaxEpochs, eval_freq : 1 .. MaxFreq,
     epoch_interval : 1 .. MaxFreq, pretrain_path : BOOLEAN,
     multiprocessing_distributed : BOOLEAN]

EnvSet(n) ==
    [nprocs : {n}, trainLen : 1 .. MaxTrainLen, statsLen : 1 .. MaxStatsLen,
     ngpus_bound : BOOLEAN]

InitWorkers ==
    /\ pc = [w \in Procs |-> "start"]
    /\ epoch = [w \in Procs |-> 0]
    /\ i = [w \in Procs |-> 0]
    /\ grad = [w \in Procs |-> <<>>]
    /\ params = [w \in Procs |-> InitParams]
    /\ optim = [w \in Procs |-> InitParams]
    /\ losses = [w \in Procs |-> AverageMeter_reset]
    /\ prev_true_grad = [w \in Procs |-> None]
    /\ update_size = [w \in Procs |-> None]
    /\ m_size = [w \in Procs |-> 0]
    /\ stats = [w \in Procs |-> NoStats]
    /\ raised = [w \in Procs |-> "none"]
    /\ stepped = [w \in Procs |-> <<>>]
    /\ cge = [w \in Procs |-> NoCall]
    /\ consumed = [w \in Procs |-> <<>>]
    /\ log_train_file = <<>>
    /\ log_valid_file = <<>>
    /\ log_sharp_file = <<>>
    /\ log_noise_file = <<>>

InitMeterVars ==
    /\ meter = AverageMeter_reset
    /\ hist = <<>>
    /\ merr = "none"

\* a single process
Init ==
    /\ args \in ArgsSet
    /\ env \in EnvSet(1)
    /\ args.multiprocessing_distributed \/ ~env.ngpus_bound
    /\ InitWorkers
    /\ InitMeterVars

Step(w) ==
    \/ main_worker_open_logs(w)
    \/ main_worker_epoch(w)
    \/ train_fetch(w)
    \/ train_true_grad(w)
    \/ train_backward(w)
    \/ train_optimizer_step(w)
    \/ train_update_size(w)
    \/ train_save_stats(w)
    \/ save_stats_write_sharp(w)
    \/ save_stats_write_noise(w)
    \/ train_next(w)
    \/ train_log(w)
    \/ main_worker_validate(w)

Next == \E w \in Procs : Step(w)

Spec == Init /\ [][Next]_vars

\* the AverageMeter class under arbitrary calls
NextMeter ==
    \/ meter_reset
    \/ \E v \in 0 .. MaxVal, n \in 0 .. MaxWeight : meter_update(v, n)

InitMeter ==
    /\ args = [save_noise |-> FALSE, save_sharpness |-> FALSE, stat_freq |-> 1,
               noise_size |-> 1, sharpness_batches |-> 1, epochs |-> 1,
               eval_freq |-> 1, epoch_interval |-> 1, pretrain_path |-> FALSE,
               multiprocessing_distributed |-> FALSE]
    /\ env = [nprocs |-> 1, trainLen |-> 1, statsLen |-> 1,
              ngpus_bound |-> FALSE]
    /\ InitWorkers
    /\ InitMeterVars

SpecMeter == InitMeter /\ [][NextMeter]_vars

\* two worker processes sharing one save directory
DistTrainLen == 2

InitDist ==
    /\ args \in ArgsSet
    /\ args.epochs = 1
    /\ args.eval_freq = 1
    /\ args.epoch_interval = 1
    /\ args.stat_freq = 1
    /\ env \in EnvSet(2)
    /\ env.trainLen <= DistTrainLen
    /\ env.statsLen >= MaxStatsLen - 1
    /\ args.multiprocessing_distributed \/ ~env.ngpus_bound
    /\ InitWorkers
    /\ InitMeterVars

SpecDist == InitDist /\ [][Next]_vars

\* ================================================================ claims
IsPrefix(a, b) == Len(a) <= Len(b) /\ SubSeq(b, 1, Len(a)) = a

\* the data rows of a log written for training step st of epoch e
RowsAt(log, e, st) ==
    {k \in 1 .. Len(log) : log[k].epoch = e /\ log[k].step = st}

DataRows(log) == {k \in 1 .. Len(log) : log[k].epoch >= 0}

\* C1: in a run with two worker processes, every row of the noise log and
\* of the sharpness log was appended by the primary, rank 0.
C1_OnlyPrimaryWritesStats ==
    /\ \A k \in DataRows(log_noise_file) : log_noise_file[k].rank = 0
    /\ \A k \in DataRows(log_sharp_file) : log_sharp_file[k].rank = 0

\* the first training step of the run has ended, normally or by an exception
\* of a diagnostic
FirstStepEnded ==
    /\ epoch[0] = 0
    /\ i[0] = 0
    /\ \/ pc[0] = "next"
       \/ pc[0] = "crashed" /\ raised[0] = "StopIteration"

C3_AppendOnly ==
    [][/\ IsPrefix(log_train_file, log_train_file')
       /\ IsPrefix(log_valid_file, log_valid_file')
       /\ IsPrefix(log_sharp_file, log_sharp_file')
       /\ IsPrefix(log_noise_file, log_noise_file')]_vars

\* C4: in a non-pretrained run every optimizer.step() consumes exactly the
\* gradient of that step's training batch, and the parameters and the
\* optimizer state change in no step other than optimizer.step().
C4_StepsConsumeTrainGrad ==
    \A w \in Procs : \A k \in 1 .. Len(stepped[w]) :
        stepped[w][k].grad =
            <<[kind |-> "train", epoch |-> stepped[w][k].epoch,
               batch |-> stepped[w][k].i, div |-> 1]>>

C4_OptimizerUntouched ==
    [][/\ C4_StepsConsumeTrainGrad'
       /\ ~pretrained =>
            \A w \in Procs :
                (params'[w] # params[w] \/ optim'[w] # optim[w])
                => pc[w] = "step" /\ pc'[w] = "post"]_vars

C4_Witness ==
    /\ ~pretrained
    /\ args.save_noise
    /\ args.stat_freq = 2
    /\ Len(stepped[0]) >= 2
    /\ cge[0].called
    /\ pc[0] = "next"
    /\ i[0] = 1

\* C5: when the run has stopped and a diagnostic raised during epoch e, the
\* training log holds the row of epoch e.
C5_EpochSurvivesDiagnosticError ==
    \A w \in Procs :
        (pc[w] \in {"done", "crashed"} /\ raised[w] = "StopIteration")
        => \E k \in DataRows(log_train_file) :
               log_train_file[k].epoch = epoch[w] /\ log_train_file[k].rank = w

\* C6: whenever the updates since the last reset have positive total weight,
\* sum is the weighted sum, count the total weight and avg their quotient;
\* with no update since the last reset all four fields are zero.
C6_MeterAverage ==
    /\ SumW(hist) > 0 =>
         /\ meter.sum = SumVW(hist)
         /\ meter.count = SumW(hist)
         /\ meter.avg[1] * meter.count = meter.sum * meter.avg[2]
         /\ meter.val = hist[Len(hist)][1]
    /\ hist = <<>> =>
         /\ meter.val = 0
         /\ meter.sum = 0
         /\ meter.count = 0
         /\ meter.avg = <<0, 1>>

C6_Witness ==
    /\ Len(hist) = 3
    /\ hist[1][2] = 0
    /\ hist[2][2] # hist[3][2]
    /\ hist[2][1] # hist[3][1]
    /\ meter.avg[2] > 1

\* C7: an update with weight 0 raises nothing and leaves val, sum, count and
\* avg as they were.
C7_ZeroWeightUpdateIsNoop ==
    [][(Len(hist') = Len(hist) + 1 /\ hist'[Len(hist')][2] = 0)
       => (meter' = meter /\ merr' = "none")]_vars

\* the snapshot compute_grad_epoch returns from a fresh iterator in epoch e:
\* N batches, each back-propagated with its loss divided by N
TrueGradOf(N, e) ==
    [j \in 1 .. N |-> [kind |-> "stat", epoch |-> e, batch |-> j, div |-> N]]

\* C8: a compute_grad_epoch call that returns normally has drawn exactly N
\* batches, returns the N accumulated loss/N gradients and leaves the
\* model's gradient buffers zero; the parameters are as before the call.
C8_TrueGradCleanReturn ==
    \A w \in Procs :
        /\ (cge[w].called /\ cge[w].res.raised = "none") =>
             /\ cge[w].res.drawn = args.noise_size
             /\ cge[w].res.pos = args.noise_size
             /\ cge[w].res.ret = TrueGradOf(args.noise_size, cge[w].epoch)
             /\ cge[w].res.grad = <<>>
        /\ (pc[w] = "backward" /\ measuring(w)) =>
             /\ grad[w] = <<>>
             /\ prev_true_grad[w] = TrueGradOf(args.noise_size, epoch[w])
             /\ params[w].steps = Len(stepped[w])
        /\ (pc[w] = "write_sharp" /\ args.save_noise) =>
             /\ stats[w].noise.true_grads = TrueGradOf(args.noise_size, epoch[w])
             /\ stats[w].cgrad = <<>>

C8_Witness ==
    /\ pc[0] = "backward"
    /\ measuring(0)
    /\ args.noise_size = 2
    /\ i[0] > 0
    /\ cge[0].called
    /\ cge[0].res.raised = "none"
    /\ Len(prev_true_grad[0]) = 2

\* C9: when a diagnostic pass ends in StopIteration, the live model's
\* gradient buffers hold no partially accumulated diagnostic gradient.
C9_NoResidueOnExhaustion ==
    \A w \in Procs :
        raised[w] = "StopIteration" =>
            \A k \in 1 .. Len(grad[w]) : grad[w][k].kind # "stat"

\* C10: when a training step has ended, each enabled statistic has been
\* measured at that step if and only if i mod stat_freq = 0 or the run is in
\* pretrained-replay mode.
C10_MeasuredIffDue ==
    \A w \in Procs :
        pc[w] = "next" =>
            LET due == i[w] % args.stat_freq = 0 \/ pretrained
            IN  /\ args.save_noise =>
                     ((\E k \in RowsAt(log_noise_file, epoch[w], i[w]) :
                          log_noise_file[k].rank = w) <=> due)
                /\ args.save_sharpness =>
                     ((\E k \in RowsAt(log_sharp_file, epoch[w], i[w]) :
                          log_sharp_file[k].rank = w) <=> due)

\* C11: in a non-pretrained run, the two curvature estimates of a measuring
\* step are computed on the parameters as they were before that step's
\* optimizer.step().
C11_SharpnessBeforeUpdate ==
    \A w \in Procs :
        (~pretrained /\ args.save_sharpness /\ pc[w] = "write_sharp")
        => /\ stats[w].dir_sharpness.params.steps = params[w].steps - 1
           /\ stats[w].sharpness.params.steps = params[w].steps - 1

\* a noise measurement of worker w has been computed and its row is about
\* to be written
NoiseMeasured(w) == pc[w] = "write_sharp" /\ args.save_noise

\* no earlier noise measurement of worker w has been logged
FirstMeasurement(w) ==
    ~\E k \in DataRows(log_noise_file) : log_noise_file[k].rank = w

\* C12 (as claimed): the previous snapshot is absent only at the first
\* measurement of the run; when absent the drift is the distance of the
\* current true gradient to itself; at every later measurement the reference
\* is a snapshot taken at an earlier measurement step.
C12_PrevAbsentOnlyAtFirst ==
    \A w \in Procs :
        NoiseMeasured(w) =>
            /\ prev_true_grad[w] = None => FirstMeasurement(w)
            /\ prev_true_grad[w] = None =>
                 stats[w].noise.grad_change_sq.against = stats[w].noise.true_grads
            /\ ~FirstMeasurement(w) =>
                 /\ prev_true_grad[w] # None
                 /\ cge[w].called
                 /\ \/ cge[w].epoch < epoch[w]
                    \/ cge[w].epoch = epoch[w] /\ cge[w].i < i[w]

\* C12 (amended): the previous snapshot is absent at every measurement of a
\* pretrained-replay run and present at every measurement of a non-pretrained
\* run; when absent the drift is the distance of the current true gradient
\* to itself; when present it is the snapshot compute_grad_epoch returned at
\* the same training step, before that step's optimizer.step(), and the
\* drift is taken against it.
C12_PrevIsSameStepSnapshot ==
    \A w \in Procs :
        NoiseMeasured(w) =>
            /\ pretrained <=> prev_true_grad[w] = None
            /\ stats[w].noise.grad_change_sq.of = stats[w].noise.true_grads
            /\ prev_true_grad[w] = None =>
                 stats[w].noise.grad_change_sq.against = stats[w].noise.true_grads
            /\ prev_true_grad[w] # None =>
                 /\ cge[w].called
                 /\ cge[w].epoch = epoch[w]
                 /\ cge[w].i = i[w]
                 /\ cge[w].steps = params[w].steps - 1
                 /\ prev_true_grad[w] = cge[w].res.ret
                 /\ stats[w].noise.grad_change_sq.against = prev_true_grad[w]

C12_Witness ==
    /\ ~pretrained
    /\ NoiseMeasured(0)
    /\ args.stat_freq = 2
    /\ epoch[0] = 1
    /\ i[0] = 2
    /\ prev_true_grad[0] # None
    /\ cge[0].steps = params[0].steps - 1

\* C13: at a measurement that logs sharpness, the direction dir_hessian
\* received from save_stats is the update direction train captured after
\* optimizer.step(), and it is not the zero/empty direction.
C13_DirectionIsLastUpdate ==
    \A w \in Procs :
        (pc[w] = "write_sharp" /\ args.save_sharpness)
        => /\ stats[w].direction = update_size[w]
           /\ stats[w].direction # <<>>

\* the training batches an epoch consumes when nothing interferes: batches
\* 0 .. len(train_loader) - 1 in order, or batch 0 alone in pretrained mode
EpochBatches ==
    [k \in 1 .. (IF pretrained THEN 1 ELSE env.trainLen) |-> k - 1]

\* C14: when the training loop of an epoch has ended, the training batches
\* it consumed are the same, in number and order, whatever stat_freq and
\* the enabled statistics are.
C14_SameTrainingBatches ==
    \A w \in Procs :
        (\/ pc[w] = "trainlog"
         \/ pc[w] = "crashed" /\ raised[w] = "StopIteration")
        => consumed[w] = EpochBatches

\* the number of noise measurements of one epoch
RowsPerEpoch ==
    IF pretrained THEN 1
    ELSE (env.trainLen + args.stat_freq - 1) \div args.stat_freq

\* C15: in a single-process run with noise saving, when the training loop of
\* epoch e has ended normally the noise log holds exactly ceil(L / stat_freq)
\* rows of epoch e (exactly one in pretrained-replay mode, where the loop
\* stopped after its first batch and no optimizer.step() was taken); they
\* are the last rows of the log and earlier epochs contributed as many each.
C15_NoiseRowsPerEpoch ==
    (env.nprocs = 1 /\ args.save_noise /\ pc[0] = "trainlog") =>
        LET rows == {k \in DataRows(log_noise_file) :
                        log_noise_file[k].epoch = epoch[0]}
        IN  /\ Cardinality(rows) = RowsPerEpoch
            /\ rows = {k \in 1 .. Len(log_noise_file) :
                          k > Len(log_noise_file) - RowsPerEpoch}
            /\ Cardinality(DataRows(log_noise_file)) =
                 (epoch[0] + 1) * RowsPerEpoch
            /\ pretrained => (stepped[0] = <<>> /\ consumed[0] = <<0>>)

C15_Witness ==
    /\ env.nprocs = 1
    /\ args.save_noise
    /\ ~pretrained
    /\ pc[0] = "trainlog"
    /\ args.stat_freq = 2
    /\ env.trainLen = 3
    /\ epoch[0] = 1
    /\ Cardinality({k \in DataRows(log_noise_file) :
                       log_noise_file[k].epoch = 1}) = 2

\* the epochs of the data rows of a log, in file order
EpochsOf(log) == [k \in 1 .. Len(log) - 1 |-> log[k + 1].epoch]

StrictlyIncreasing(q) == \A k \in 1 .. Len(q) - 1 : q[k] < q[k + 1]

RECURSIVE EvalEpochs(_, _)
EvalEpochs(e, n) ==
    IF e >= n THEN <<>>
    ELSE (IF e % args.eval_freq = 0 THEN <<e>> ELSE <<>>) \o EvalEpochs(e + 1, n)

\* every row of epoch e + 1 in the log was written when the training log
\* already held the row of epoch e
AfterPreviousTrainRow(log) ==
    \A k \in DataRows(log) :
        log[k].epoch > 0 =>
            \E j \in DataRows(log_train_file) :
                log_train_file[j].epoch = log[k].epoch - 1

\* C16: in a single-process run the rows of the training log and of the
\* validation log are in strictly increasing epoch order; the row of epoch e
\* is in the training log only after the last training step of epoch e and
\* before any row of epoch e + 1 in any log; and when the run has finished
\* the training log holds exactly one row for each epoch 0 .. epochs - 1 and
\* the validation log exactly the epochs with e mod eval_freq = 0.
C16_EpochRows ==
    env.nprocs = 1 =>
        /\ log_train_file # <<>> => StrictlyIncreasing(EpochsOf(log_train_file))
        /\ log_valid_file # <<>> => StrictlyIncreasing(EpochsOf(log_valid_file))
        /\ \A k \in DataRows(log_train_file) :
             LET e == log_train_file[k].epoch
             IN  /\ e < epoch[0] \/ (e = epoch[0] /\ pc[0] = "validate")
                 /\ ~pretrained =>
                      \E j \in 1 .. Len(stepped[0]) :
                          stepped[0][j].epoch = e /\ stepped[0][j].i = env.trainLen - 1
        /\ AfterPreviousTrainRow(log_train_file)
        /\ AfterPreviousTrainRow(log_valid_file)
        /\ AfterPreviousTrainRow(log_sharp_file)
        /\ AfterPreviousTrainRow(log_noise_file)
        /\ \A k \in DataRows(log_valid_file) :
             \E j \in DataRows(log_train_file) :
                 log_train_file[j].epoch = log_valid_file[k].epoch
        /\ pc[0] = "done" =>
             /\ EpochsOf(log_train_file) = [e \in 1 .. args.epochs |-> e - 1]
             /\ EpochsOf(log_valid_file) = EvalEpochs(0, args.epochs)

C16_Witness ==
    /\ env.nprocs = 1
    /\ pc[0] = "done"
    /\ args.epochs = 2
    /\ args.eval_freq = 2
    /\ EpochsOf(log_train_file) = <<0, 1>>
    /\ EpochsOf(log_valid_file) = <<0>>

====
